---- MODULE Spec2Model ----
(***************************************************************************)
(* promplot: main (src/main.go) and promplot.Plot (src/unnamed/part_000).  *)
(* main parses the flags, queries Prometheus, calls Plot and hands the     *)
(* rendered image to the file sink and/or the Slack upload.  Plot builds   *)
(* one line per series of the Matrix and renders the chart.                *)
(*                                                                         *)
(* Strings that the code inspects character by character (the metric's     *)
(* label string) are sequences of one-character strings.  Calls into       *)
(* packages outside the repository (promplot.Metrics, promplot.Slack, os,  *)
(* io, gonum/plot) are modelled by their results: what they return is      *)
(* chosen among the outcomes the calling code distinguishes.               *)
(***************************************************************************)
EXTENDS Integers, Sequences, FiniteSets, TLC

VARIABLES
    flags,      \* main: the parsed command line
    pc,         \* position in main / in Plot
    stderr,     \* main: what was written to os.Stderr, in order
    stdout,     \* main: what was written to os.Stdout, in order
    exitCode,   \* -1 while running, else the process' exit status
    plot,       \* main: which reader the variable `plot` refers to
    buf,        \* main: bytes held by the tee buffer (unread)
    disk,       \* the output file: [exists, bytes]
    upload,     \* the Slack upload: [called, body]
    trace,      \* calls main has made so far, with their outcome
    metrics,    \* the Matrix (main's `metrics`, Plot's parameter)
    format,     \* Plot's parameter `format`
    s,          \* Plot: index of the series being processed (0-based)
    i,          \* Plot: index of the sample being processed (0-based)
    data,       \* Plot: points of the series being processed
    lines,      \* Plot: lines added to the chart with p.Add, in order
    legend,     \* Plot: entries added with p.Legend.Add, in order
    canvas,     \* Plot: whether draw.NewFormattedCanvas returned a canvas
    ret,        \* Plot: what it returned, [r, err]
    b,          \* bytes (unread) of the buffer Plot returned
    image       \* the bytes c.WriteTo wrote into that buffer

mainVars == <<flags, stderr, stdout, exitCode, plot, buf, disk, upload, trace>>
plotVars ==
    <<metrics, format, s, i, data, lines, legend, canvas, ret, b, image>>
vars == <<flags, pc, stderr, stdout, exitCode, plot, buf, disk, upload, trace,
          metrics, format, s, i, data, lines, legend, canvas, ret, b, image>>

----------------------------------------------------------------------------
(* Bounds of the model *)

\* series in a Matrix of arbitrary series
MaxSeries == 2
\* series in a Matrix of plain series (more than two rounds of the palette)
MaxPaletteSeries == 17
\* characters in a label string drawn from LabelAlphabet
MaxLabelLen == 4
\* bytes of a rendered image
MaxBytes == 3

(* Program constants *)

\* paletteSize := 8
paletteSize == 8

----------------------------------------------------------------------------
(* Sequences *)

SeqsUpTo(S, n) == UNION {[1..k -> S] : k \in 0..n}

Min(S) == CHOOSE x \in S : \A y \in S : x <= y

----------------------------------------------------------------------------
(* Inputs *)

\* A model.SampleStream: the metric, given by the string Metric.String()
\* renders, and its samples.  Timestamps are in milliseconds: the first
\* sample lies at 1500 ms, each further one a minute (60000 ms) later; a
\* sample's value is given by the string Value.String() renders.
Stream(label, values) ==
    [Metric |-> label,
     Values |-> [k \in 1..Len(values) |->
                    [Timestamp |-> (k - 1) * 60000 + 1500, Value |-> values[k]]]]

\* "1" and "2" parse to finite floats, "NaN" parses to a float that is not
\* finite, "x" does not parse.
ValueSeqs ==
    {<<>>, <<"1">>, <<"1", "2">>, <<"x">>, <<"1", "x">>, <<"x", "1">>,
     <<"NaN">>, <<"1", "NaN">>}

up == <<"u", "p">>
upA == <<"u", "p", "{", "a", "}">>
upAB == <<"{", "a", "}", "b", "}">>

SmallLabels == {up, upA, upAB}

LabelAlphabet == {"{", "}", "a", "\n"}

Labels == SeqsUpTo(LabelAlphabet, MaxLabelLen)

\* Matrices of up to MaxSeries arbitrary series
SmallMatrices ==
    SeqsUpTo({Stream(l, v) : l \in SmallLabels, v \in ValueSeqs}, MaxSeries)

\* Matrices of up to MaxPaletteSeries plain series
PaletteMatrices ==
    {[k \in 1..n |-> Stream(upA, <<"1">>)] : n \in 1..MaxPaletteSeries}

\* Matrices of one or two series, the first with any label string
LabelMatrices ==
    {<<Stream(l, <<"1">>)>> : l \in Labels}
        \cup {<<Stream(l, <<"1">>), Stream(up, <<"2">>)>> : l \in Labels}

PlotMatrices == SmallMatrices \cup PaletteMatrices \cup LabelMatrices

\* A supported and an unsupported value of -format
Formats == {"png", "bmp"}

\* The images a render can produce: n bytes, all different
Images == {[k \in 1..n |-> k] : n \in 1..MaxBytes}

----------------------------------------------------------------------------
(* promplot.Plot *)

\* labelText = regexp.MustCompile("\\{(.*)\\}"), matched at position a:
\* "{", then .* takes every character up to the end of the line, then gives
\* characters back one at a time until "}" follows.  0 when there is no match
\* at a, else the position of the closing "}".
RECURSIVE GiveBack(_, _, _)
GiveBack(str, a, z) ==
    IF z <= a THEN 0
    ELSE IF str[z] = "}" THEN z
    ELSE GiveBack(str, a, z - 1)

LineEnd(str, a) ==
    Min({k \in a + 1..Len(str) : str[k] = "\n"} \cup {Len(str) + 1})

MatchAt(str, a) ==
    IF str[a] # "{" THEN 0 ELSE GiveBack(str, a, LineEnd(str, a) - 1)

\* the same with the lazy (.*?): the first "}" that follows on the line
LazyMatchAt(str, a) ==
    IF str[a] # "{" THEN 0
    ELSE LET e == LineEnd(str, a)
             c == {k \in a + 1..e - 1 : str[k] = "}"}
         IN IF c = {} THEN 0 ELSE Min(c)

RECURSIVE Scan(_, _)
Scan(str, a) ==
    IF a > Len(str) THEN <<>>
    ELSE LET z == MatchAt(str, a)
         IN IF z # 0 THEN <<SubSeq(str, a, z), SubSeq(str, a + 1, z - 1)>>
            ELSE Scan(str, a + 1)

RECURSIVE LazyScan(_, _)
LazyScan(str, a) ==
    IF a > Len(str) THEN <<>>
    ELSE LET z == LazyMatchAt(str, a)
         IN IF z # 0 THEN <<SubSeq(str, a, z), SubSeq(str, a + 1, z - 1)>>
            ELSE LazyScan(str, a + 1)

LazyFindStringSubmatch(str) == LazyScan(str, 1)

\* labelText.FindStringSubmatch: <<>> (nil) when nothing matches, else the
\* leftmost match and its capture group
FindStringSubmatch(str) == Scan(str, 1)

\* strconv.ParseFloat(v.Value.String(), 64)
ParseFloat(str) ==
    CASE str = "1" -> [err |-> FALSE, f |-> [finite |-> TRUE, n |-> 1]]
      [] str = "2" -> [err |-> FALSE, f |-> [finite |-> TRUE, n |-> 2]]
      [] str = "NaN" -> [err |-> FALSE, f |-> [finite |-> FALSE, n |-> 0]]
      [] OTHER -> [err |-> TRUE, f |-> [finite |-> TRUE, n |-> 0]]

UnixMillis(t) == t

\* v.Timestamp.Unix(): model.Time counts milliseconds
Unix(t) == t \div 1000

\* plotter.NewLine(data) returns an error when a point is NaN or infinite
NewLineErr(xys) == \E k \in 1..Len(xys) : ~xys[k].Y.finite

\* palette.Colors() of brewer's Dark2 with 8 colours, indexed from 0
colors ==
    [k \in 0..paletteSize - 1 |->
        <<"#1B9E77", "#D95F02", "#7570B3", "#E7298A",
          "#66A61E", "#E6AB02", "#A6761D", "#666666">>[k + 1]]

OffByOneColorIndex(n) == (n + 1) % paletteSize

\* the index in colors[s%paletteSize]
ColorIndex(n) == n % paletteSize

AlwaysLegend(n) == TRUE

\* len(metrics) > 1
WantLegend(n) == n > 1

\* formats draw.NewFormattedCanvas knows
SupportedFormats == {"eps", "jpg", "jpeg", "pdf", "png", "svg", "tif", "tiff"}

PartialPlotFail(e) ==
    /\ ret' = [r |-> "b", err |-> e]
    /\ pc' = "return"

\* return nil, fmt.Errorf(...)
PlotFail(e) ==
    /\ ret' = [r |-> "nil", err |-> e]
    /\ pc' = "return"

\* plot.New, vg.MakeFont, brewer.GetPalette and the chart's fixed settings
PlotSetup ==
    /\ pc = "Plot"
    /\ \E e \in {"nil", "failed creating new plot", "failed creating font",
                 "cannot get color palette"} :
          IF e # "nil"
          THEN PlotFail(e)
          ELSE /\ pc' = "range"
               /\ ret' = ret
    /\ UNCHANGED <<metrics, format, s, i, data, lines, legend, canvas, b, image>>
    /\ UNCHANGED mainVars

\* one round of the inner loop: for i, v := range sample.Values
PlotSample ==
    /\ pc = "range"
    /\ s < Len(metrics)
    /\ i < Len(metrics[s + 1].Values)
    /\ LET v == metrics[s + 1].Values[i + 1]
           p == ParseFloat(v.Value)
       IN IF p.err
          THEN /\ PlotFail("sample value not float")
               /\ UNCHANGED <<i, data>>
          ELSE /\ data' = Append(data, [X |-> Unix(v.Timestamp), Y |-> p.f])
               /\ i' = i + 1
               /\ UNCHANGED <<pc, ret>>
    /\ UNCHANGED <<metrics, format, s, lines, legend, canvas, b, image>>
    /\ UNCHANGED mainVars

\* the rest of one round of the outer loop: NewLine, the line's style, p.Add
\* and the legend entry
PlotLine ==
    /\ pc = "range"
    /\ s < Len(metrics)
    /\ i = Len(metrics[s + 1].Values)
    /\ IF NewLineErr(data)
       THEN /\ PlotFail("failed creating line")
            /\ UNCHANGED <<s, i, data, lines, legend>>
       ELSE LET l == [XYs |-> data, Width |-> 1,
                      Color |-> colors[ColorIndex(s)]]
                m == FindStringSubmatch(metrics[s + 1].Metric)
            IN /\ lines' = Append(lines, l)
               /\ legend' =
                     IF WantLegend(Len(metrics)) /\ m # <<>>
                     THEN Append(legend, [text |-> m[2], line |-> Len(lines) + 1])
                     ELSE legend
               /\ s' = s + 1
               /\ i' = 0
               /\ data' = <<>>
               /\ UNCHANGED <<pc, ret>>
    /\ UNCHANGED <<metrics, format, canvas, b, image>>
    /\ UNCHANGED mainVars

\* after the loop: the canvas, p.Draw and c.WriteTo
PlotRender ==
    /\ pc = "range"
    /\ s = Len(metrics)
    /\ IF format \notin SupportedFormats
       THEN /\ PlotFail("failed creating image canvas")
            /\ UNCHANGED <<canvas, b, image>>
       ELSE /\ canvas' = TRUE
            /\ \/ /\ PlotFail("failed saving plot")
                  /\ UNCHANGED <<b, image>>
               \/ \E img \in Images :
                     /\ b' = img
                     /\ image' = img
                     /\ ret' = [r |-> "b", err |-> "nil"]
                     /\ pc' = "return"
    /\ UNCHANGED <<metrics, format, s, i, data, lines, legend>>
    /\ UNCHANGED mainVars

PlotNext == PlotSetup \/ PlotSample \/ PlotLine \/ PlotRender

\* the values main's variables have before main has done anything
MainIdle ==
    /\ stderr = <<>>
    /\ stdout = <<>>
    /\ exitCode = -1
    /\ plot = "nil"
    /\ buf = <<>>
    /\ disk = [exists |-> FALSE, bytes |-> <<>>]
    /\ upload = [called |-> FALSE, body |-> <<>>]
    /\ trace = <<>>

\* Plot's variables on entry
PlotEntry ==
    /\ s = 0
    /\ i = 0
    /\ data = <<>>
    /\ lines = <<>>
    /\ legend = <<>>
    /\ canvas = FALSE
    /\ ret = [r |-> "nil", err |-> "nil"]
    /\ b = <<>>
    /\ image = <<>>

\* Plot called on its own, as a function of the package
InitPlot ==
    /\ pc = "Plot"
    /\ flags = [called |-> "Plot"]
    /\ metrics \in PlotMatrices
    /\ format \in Formats
    /\ MainIdle
    /\ PlotEntry

SpecPlot == InitPlot /\ [][PlotNext]_vars

----------------------------------------------------------------------------
(* main *)

\* the command lines: every flag either left at its default or set
FlagSets ==
    [version : BOOLEAN, silent : BOOLEAN,
     url : {"", "http://prom:9090"}, query : {"", "up"},
     range : {0, 3600}, format : Formats,
     file : {"", "-", "out.png"},
     slack : {"", "xoxp-1"}, channel : {"", "ops"}]

\* what promplot.Metrics can return when it returns no error
FetchedMatrices ==
    {<<>>,
     <<Stream(up, <<"1", "2">>)>>,
     <<Stream(upA, <<"1">>), Stream(upAB, <<"2">>)>>,
     <<Stream(up, <<"1", "x">>)>>,
     <<Stream(upA, <<"1">>), Stream(up, <<"NaN">>)>>}

AndMissingRequired(f) ==
    f.url = "" /\ f.query = "" /\ f.range = 0
        /\ (f.file = "" /\ (f.slack = "" \/ f.channel = ""))

\* the condition of "Required flags"
MissingRequired(f) ==
    f.url = "" \/ f.query = "" \/ f.range = 0
        \/ (f.file = "" /\ (f.slack = "" \/ f.channel = ""))

\* the logging helper: written to os.Stderr unless -silent
log(out, text) ==
    IF ~flags.silent THEN Append(out, [kind |-> "log", text |-> text]) ELSE out

NeverFatal(e) == FALSE

IgnoreShortWrite(e) == e # "nil" /\ e # "short write"

\* fatal: whether the process exits
fatal(e) == e # "nil"

QuietFatalWrite(out, e) ==
    IF ~flags.silent THEN Append(out, [kind |-> "fatal", text |-> e]) ELSE out

\* fatal: what it writes to os.Stderr before os.Exit(1)
fatalWrite(out, e) == Append(out, [kind |-> "fatal", text |-> e])

Called(call, e) == [call |-> call, ok |-> e = "nil"]

Exit(code) ==
    /\ exitCode' = code
    /\ pc' = "exit"

\* flag.Parse, -version and the required flags
ParseFlags ==
    /\ pc = "main"
    /\ IF flags.version
       THEN /\ stdout' = Append(stdout, [kind |-> "version", bytes |-> <<>>])
            /\ Exit(0)
            /\ UNCHANGED stderr
       ELSE IF MissingRequired(flags)
       THEN /\ stderr' = Append(stderr, [kind |-> "usage", text |-> "Usage"])
            /\ Exit(1)
            /\ UNCHANGED stdout
       ELSE /\ pc' = "query"
            /\ UNCHANGED <<stderr, stdout, exitCode>>
    /\ UNCHANGED <<flags, plot, buf, disk, upload, trace>>
    /\ UNCHANGED plotVars

\* "Fetch from Prometheus", up to the call of promplot.Plot
Query ==
    /\ pc = "query"
    /\ \/ \E e \in {"query failed"} :
             /\ trace' = Append(trace, Called("Metrics", e))
             /\ IF fatal(e)
                THEN /\ stderr' = fatalWrite(log(stderr, "Querying"), e)
                     /\ Exit(1)
                ELSE /\ stderr' = log(log(stderr, "Querying"), "Creating plot")
                     /\ pc' = "Plot"
                     /\ UNCHANGED exitCode
             /\ UNCHANGED metrics
       \/ \E m \in FetchedMatrices :
             /\ trace' = Append(trace, Called("Metrics", "nil"))
             /\ metrics' = m
             /\ stderr' = log(log(stderr, "Querying"), "Creating plot")
             /\ pc' = "Plot"
             /\ UNCHANGED exitCode
    /\ format' = flags.format
    /\ UNCHANGED <<flags, stdout, plot, buf, disk, upload>>
    /\ UNCHANGED <<s, i, data, lines, legend, canvas, ret, b, image>>

\* plot, err := promplot.Plot(...); fatal(err, "failed creating plot")
PlotReturn ==
    /\ pc = "return"
    /\ trace' = Append(trace, Called("Plot", ret.err))
    /\ plot' = ret.r
    /\ IF fatal(ret.err)
       THEN /\ stderr' = fatalWrite(stderr, ret.err)
            /\ Exit(1)
       ELSE /\ pc' = "file"
            /\ UNCHANGED <<stderr, exitCode>>
    /\ UNCHANGED <<flags, stdout, buf, disk, upload>>
    /\ UNCHANGED plotVars

KeepReader == plot

\* plot = buf
TeeSwap == "buf"

\* "Write to file", up to the call of io.Copy
WriteFile ==
    /\ pc = "file"
    /\ IF flags.file = ""
       THEN /\ pc' = "slack"
            /\ UNCHANGED <<stderr, exitCode, plot, buf, disk, trace>>
       ELSE /\ buf' = <<>>
            /\ plot' = TeeSwap
            /\ IF flags.file = "-"
               THEN /\ stderr' = log(stderr, "Writing to stdout")
                    /\ pc' = "copy"
                    /\ UNCHANGED <<exitCode, disk, trace>>
               ELSE \E e \in {"nil", "permission denied"} :
                       /\ trace' = Append(trace, Called("Create", e))
                       /\ IF fatal(e)
                          THEN /\ stderr' = fatalWrite(log(stderr, "Writing to file"), e)
                               /\ Exit(1)
                               /\ UNCHANGED disk
                          ELSE /\ stderr' = log(stderr, "Writing to file")
                               /\ disk' = [exists |-> TRUE, bytes |-> <<>>]
                               /\ pc' = "copy"
                               /\ UNCHANGED exitCode
    /\ UNCHANGED <<flags, stdout, upload>>
    /\ UNCHANGED plotVars

\* out.Write(chunk)
Write(chunk) ==
    IF flags.file = "-"
    THEN /\ stdout' = IF chunk = <<>> THEN stdout
                      ELSE Append(stdout, [kind |-> "image", bytes |-> chunk])
         /\ UNCHANGED disk
    ELSE /\ disk' = [disk EXCEPT !.bytes = @ \o chunk]
         /\ UNCHANGED stdout

\* io.Copy(out, t): one round of its loop.  t.Read takes a chunk from the
\* reader Plot returned and writes it to buf; out.Write writes the chunk, or
\* less than the chunk and an error.
Copy ==
    /\ pc = "copy"
    /\ IF b = <<>>
       THEN /\ trace' = Append(trace, Called("Copy", "nil"))
            /\ pc' = "slack"
            /\ UNCHANGED <<stderr, stdout, exitCode, buf, disk, b>>
       ELSE \E n \in 1..Len(b) : \E w \in 0..n :
               LET chunk == SubSeq(b, 1, n)
                   e == IF w < n THEN "short write" ELSE "nil"
               IN /\ b' = SubSeq(b, n + 1, Len(b))
                  /\ buf' = buf \o chunk
                  /\ Write(SubSeq(chunk, 1, w))
                  /\ IF e # "nil"
                     THEN /\ trace' = Append(trace, Called("Copy", e))
                          /\ IF fatal(e)
                             THEN /\ stderr' = fatalWrite(stderr, e)
                                  /\ Exit(1)
                             ELSE /\ pc' = "slack"
                                  /\ UNCHANGED <<stderr, exitCode>>
                     ELSE UNCHANGED <<pc, stderr, exitCode, trace>>
    /\ UNCHANGED <<flags, plot, upload>>
    /\ UNCHANGED <<metrics, format, s, i, data, lines, legend, canvas, ret, image>>

\* the bytes the reader `plot` has to give
Unread == CASE plot = "b" -> b [] plot = "buf" -> buf [] OTHER -> <<>>

\* "Upload to Slack" and the end of main
Upload ==
    /\ pc = "slack"
    /\ IF flags.slack = ""
       THEN /\ stderr' = log(stderr, "Done")
            /\ Exit(0)
            /\ UNCHANGED <<upload, trace, buf, b>>
       ELSE /\ upload' = [called |-> TRUE, body |-> Unread]
            /\ buf' = IF plot = "buf" THEN <<>> ELSE buf
            /\ b' = IF plot = "b" THEN <<>> ELSE b
            /\ \E e \in {"nil", "invalid_auth"} :
                  /\ trace' = Append(trace, Called("Slack", e))
                  /\ IF fatal(e)
                     THEN /\ stderr' = fatalWrite(log(stderr, "Uploading"), e)
                          /\ Exit(1)
                     ELSE /\ stderr' = log(log(stderr, "Uploading"), "Done")
                          /\ Exit(0)
    /\ UNCHANGED <<flags, stdout, plot, disk>>
    /\ UNCHANGED <<metrics, format, s, i, data, lines, legend, canvas, ret, image>>

Init ==
    /\ pc = "main"
    /\ flags \in FlagSets
    /\ metrics = <<>>
    /\ format = ""
    /\ MainIdle
    /\ PlotEntry

Next ==
    \/ ParseFlags
    \/ Query
    \/ PlotSetup
    \/ PlotSample
    \/ PlotLine
    \/ PlotRender
    \/ PlotReturn
    \/ WriteFile
    \/ Copy
    \/ Upload

Spec == Init /\ [][Next]_vars

----------------------------------------------------------------------------
(* Properties of Plot, checked under SpecPlot *)

\* str[a] = "{" and str[z] = "}" on one line, a before z
Pair(str, a, z) ==
    /\ a < z
    /\ str[a] = "{"
    /\ str[z] = "}"
    /\ \A k \in a + 1..z - 1 : str[k] # "\n"

HasPair(str) == \E a, z \in 1..Len(str) : Pair(str, a, z)

\* the legend entries registered for the k-th line
EntriesOf(k) == {e \in 1..Len(legend) : legend[e].line = k}

\* C3, as stated: with more than one series, a legend text is the substring
\* strictly between the first "{" of the label string and the next "}" after
\* it (the first closing brace), and a label string without a brace pair has
\* no legend entry.
C3_FirstClosingBrace ==
    \A e \in 1..Len(legend) :
        LET str == metrics[legend[e].line].Metric
            opens == {k \in 1..Len(str) : str[k] = "{"}
        IN /\ opens # {}
           /\ LET a == Min(opens)
                  closes == {k \in a + 1..Len(str) : str[k] = "}"}
              IN /\ closes # {}
                 /\ legend[e].text = SubSeq(str, a + 1, Min(closes) - 1)

\* C3, amended: with more than one series, the legend text of a series is the
\* substring strictly between the first "{" that has a "}" after it on the
\* same line and the LAST "}" of that line; a label string without such a
\* brace pair has no legend entry, one with such a pair has exactly one.
C3_LastClosingBrace ==
    Len(metrics) > 1 =>
        \A k \in 1..Len(lines) :
            LET str == metrics[k].Metric
            IN IF HasPair(str)
               THEN \E a, z \in 1..Len(str) :
                       /\ Pair(str, a, z)
                       /\ \A a2 \in 1..a - 1 : \A z2 \in 1..Len(str) : ~Pair(str, a2, z2)
                       /\ \A z2 \in z + 1..Len(str) : ~Pair(str, a, z2)
                       /\ \E e \in EntriesOf(k) :
                             /\ EntriesOf(k) = {e}
                             /\ legend[e].text = SubSeq(str, a + 1, z - 1)
               ELSE EntriesOf(k) = {}

\* a legend text that runs over a "}": the label string had several
C3_Witness ==
    /\ Len(metrics) > 1
    /\ \E e \in 1..Len(legend) : \E k \in 1..Len(legend[e].text) :
          legend[e].text[k] = "}"

\* C4: the legend has entries only if the Matrix has more than one series;
\* with more than one, it has as many entries as there are series added so
\* far whose label string holds a brace pair, never more than series; after
\* the loop that is the number of series of the Matrix with a brace pair.
C4_LegendOnlyForSeveral ==
    /\ Len(metrics) <= 1 => legend = <<>>
    /\ Len(metrics) > 1 =>
          /\ Len(legend) =
                Cardinality({k \in 1..Len(lines) : HasPair(metrics[k].Metric)})
          /\ Len(legend) <= Len(metrics)
          /\ s = Len(metrics) =>
                Len(legend) =
                    Cardinality({k \in 1..Len(metrics) : HasPair(metrics[k].Metric)})

\* the loop is over a single series whose label string holds a brace pair
C4_Witness ==
    /\ pc = "return"
    /\ ret.err = "nil"
    /\ Len(metrics) = 1
    /\ Len(lines) = 1
    /\ HasPair(metrics[1].Metric)
    /\ legend = <<>>

Parses(str) == str \in {"1", "2", "NaN"}

AllParse(m) ==
    \A k \in 1..Len(m) : \A j \in 1..Len(m[k].Values) : Parses(m[k].Values[j].Value)

AllFinite(m) ==
    \A k \in 1..Len(m) : \A j \in 1..Len(m[k].Values) :
        m[k].Values[j].Value \in {"1", "2"}

SetupErrors ==
    {"failed creating new plot", "failed creating font", "cannot get color palette"}

\* the k-th line is built from the k-th series: one point per sample, in the
\* order of the samples, X the sample's time in whole seconds, Y its value
LineOf(k) ==
    /\ Len(lines[k].XYs) = Len(metrics[k].Values)
    /\ \A j \in 1..Len(lines[k].XYs) :
          /\ lines[k].XYs[j].X * 1000 <= metrics[k].Values[j].Timestamp
          /\ metrics[k].Values[j].Timestamp < (lines[k].XYs[j].X + 1) * 1000
          /\ lines[k].XYs[j].Y = ParseFloat(metrics[k].Values[j].Value).f

\* C5, as stated: once Plot has gone through its loop over a Matrix of
\* n >= 1 series whose values all parse, n lines have been added.
C5_AllParseGivesAllLines ==
    (/\ pc = "return"
     /\ ret.err \notin SetupErrors
     /\ Len(metrics) >= 1
     /\ AllParse(metrics)) => Len(lines) = Len(metrics)

\* C5, amended: after the first k series have been processed exactly k lines
\* have been added, the k-th built from the k-th series; once Plot has gone
\* through its loop over a Matrix of n >= 1 series whose values all parse
\* and none of which is NaN or infinite (plotter.NewLine refuses those), n
\* lines have been added.
C5_OneLinePerSeries ==
    /\ pc = "range" => Len(lines) = s
    /\ Len(lines) <= Len(metrics)
    /\ \A k \in 1..Len(lines) : LineOf(k)
    /\ (/\ pc = "return"
        /\ ret.err \notin SetupErrors
        /\ Len(metrics) >= 1
        /\ AllParse(metrics)
        /\ AllFinite(metrics)) => Len(lines) = Len(metrics)

\* Plot has returned a chart of two lines, one of them of two points
C5_Witness ==
    /\ pc = "return"
    /\ ret.err = "nil"
    /\ Len(metrics) = 2
    /\ Len(lines) = 2
    /\ \E k \in 1..2 : Len(lines[k].XYs) = 2 /\ lines[k].XYs[2].X = 61

Dark2 ==
    <<"#1B9E77", "#D95F02", "#7570B3", "#E7298A",
      "#66A61E", "#E6AB02", "#A6761D", "#666666">>

\* C6: the line of the series at position p has colour p mod 8 of the
\* palette: the index lies in 0..7, positions p and p + 8 have the same
\* colour, and two positions below 8 have different colours.
C6_ColourByPosition ==
    /\ \A k \in 1..Len(lines) :
          /\ ColorIndex(k - 1) \in 0..7
          /\ lines[k].Color = Dark2[((k - 1) % 8) + 1]
    /\ \A j, k \in 1..Len(lines) :
          /\ k = j + 8 => lines[j].Color = lines[k].Color
          /\ (j < k /\ k <= 8) => lines[j].Color # lines[k].Color

\* more than two rounds of the palette have been drawn
C6_Witness == Len(lines) > 2 * paletteSize

\* the first sample, in the order of the Matrix, whose value does not parse
IsFirstUnparsable(k, j) ==
    /\ k \in 1..Len(metrics)
    /\ j \in 1..Len(metrics[k].Values)
    /\ ~Parses(metrics[k].Values[j].Value)
    /\ \A j2 \in 1..j - 1 : Parses(metrics[k].Values[j2].Value)
    /\ \A k2 \in 1..k - 1 : \A j2 \in 1..Len(metrics[k2].Values) :
          Parses(metrics[k2].Values[j2].Value)

\* C7: when a sample's value does not parse, Plot stops at that sample and
\* returns a nil reader and an error: nothing after that sample has been
\* processed, no canvas was created and no bytes were rendered; a Matrix
\* that holds such a sample never gets to the canvas.
C7_ParseErrorAborts ==
    /\ ret.err = "sample value not float" =>
          /\ pc = "return"
          /\ ret.r = "nil"
          /\ IsFirstUnparsable(s + 1, i + 1)
          /\ Len(lines) = s
          /\ Len(data) = i
          /\ ~canvas
          /\ image = <<>>
          /\ b = <<>>
    /\ ~AllParse(metrics) =>
          /\ ~canvas
          /\ image = <<>>
          /\ pc = "return" => ret.r = "nil" /\ ret.err # "nil"

\* the second sample of the second series did not parse, after one line
C7_Witness ==
    /\ ret.err = "sample value not float"
    /\ s = 1
    /\ i = 1
    /\ Len(lines) = 1

----------------------------------------------------------------------------
(* Properties of main, checked under Spec *)

Last(q) == q[Len(q)]

SinkCalls == {"Create", "Copy", "Slack"}

\* the file was created, or image bytes were written, or the upload was called
SinkActed ==
    \/ disk.exists
    \/ \E k \in 1..Len(stdout) : stdout[k].kind = "image"
    \/ upload.called
    \/ \E k \in 1..Len(trace) : trace[k].call \in SinkCalls

\* C1, the condition as the claim words it
C1_Missing ==
    \/ flags.url = ""
    \/ flags.query = ""
    \/ flags.range = 0
    \/ (flags.file = "" /\ (flags.slack = "" \/ flags.channel = ""))

C2_NoSinkBeforePlot ==
    /\ SinkActed =>
          /\ Len(trace) >= 2
          /\ trace[1] = [call |-> "Metrics", ok |-> TRUE]
          /\ trace[2] = [call |-> "Plot", ok |-> TRUE]
    /\ \A k \in 1..Len(trace) :
          (trace[k].call \in {"Metrics", "Plot"} /\ ~trace[k].ok) =>
              /\ pc = "exit"
              /\ exitCode = 1
              /\ ~SinkActed

\* Plot failed on a sample, both sinks requested: exit 1 and nothing written
C2_Witness ==
    /\ pc = "exit"
    /\ exitCode = 1
    /\ ret.err = "sample value not float"
    /\ flags.file = "out.png" /\ flags.slack # ""
    /\ trace # <<>>
    /\ Last(trace) = [call |-> "Plot", ok |-> FALSE]
    /\ ~disk.exists

RECURSIVE ImageBytes(_)
ImageBytes(q) ==
    IF q = <<>> THEN <<>>
    ELSE IF q[1].kind = "image" THEN q[1].bytes \o ImageBytes(Tail(q))
    ELSE ImageBytes(Tail(q))

\* the bytes the file sink has written
Written == IF flags.file = "-" THEN ImageBytes(stdout) ELSE disk.bytes

CallsOf(c) == {k \in 1..Len(trace) : trace[k].call = c}

\* C8: the upload gets the bytes Plot returned, all of them, and Plot was
\* called once; with -file set these are the bytes the file sink wrote,
\* read back from the tee buffer; with only -slack set the upload reads the
\* reader Plot returned.
C8_UploadGetsTheImage ==
    upload.called =>
        /\ upload.body = image
        /\ upload.body # <<>>
        /\ Cardinality(CallsOf("Plot")) = 1
        /\ flags.file # "" => (Written = image /\ plot = "buf")
        /\ flags.file = "" => plot = "b"

\* file and upload, an image of more than one chunk
C8_Witness ==
    /\ upload.called
    /\ flags.file = "out.png"
    /\ Len(upload.body) >= 2
    /\ disk.bytes = upload.body

\* C9: with both sinks the upload starts after the copy to the file has
\* succeeded and only then; when the upload fails the process exits with
\* status 1 and the file keeps the whole image; when creating or writing
\* the file fails there is no upload.
C9_FileBeforeUpload ==
    /\ (CallsOf("Slack") # {} /\ flags.file # "") =>
          /\ \E k \in CallsOf("Copy") : \E j \in CallsOf("Slack") :
                k < j /\ trace[k].ok
          /\ Written = image
          /\ flags.file # "-" => disk.exists
    /\ (\E k \in CallsOf("Create") \cup CallsOf("Copy") : ~trace[k].ok) =>
          /\ CallsOf("Slack") = {}
          /\ ~upload.called
    /\ (trace # <<>> /\ Last(trace) = [call |-> "Slack", ok |-> FALSE]) =>
          /\ pc = "exit"
          /\ exitCode = 1

\* the upload failed after the file was written
C9_Witness ==
    /\ pc = "exit"
    /\ exitCode = 1
    /\ trace # <<>>
    /\ Last(trace) = [call |-> "Slack", ok |-> FALSE]
    /\ flags.file = "out.png"
    /\ disk.exists
    /\ disk.bytes = image
    /\ Len(image) >= 2

ProgressOf(c) ==
    CASE c = "Metrics" -> "Querying"
      [] c = "Plot" -> "Creating plot"
      [] c = "Create" -> "Writing to file"
      [] c = "Slack" -> "Uploading"
      [] OTHER -> ""

====
